---- MODULE Spec2Model ----
(***************************************************************************)
(* Model of wordpath/wordpaths.py: the Graph and BreadthFirstPaths classes *)
(* and Wordpath._hamming_distance, _those_at_distance and find_word_path.   *)
(*                                                                         *)
(* A word is a tuple of characters.  Python lists are sequences, the       *)
(* indexes dict is a function, a list indexed from 0 (Adj, Marked, EdgeTo) *)
(* is a function on 0..V-1.  None is NoneVal, a list value is List(l).     *)
(* An exception ends the run in pc = "raised" with its type in exc.        *)
(* A step is the entry of a call, one pass of a loop, or a return.         *)
(***************************************************************************)
EXTENDS Integers, Sequences, FiniteSets, TLC

VARIABLES
    Words,        \* Wordpath.__Words
    origin,       \* find_word_path: argument
    destination,  \* find_word_path: argument
    subset,       \* find_word_path: candidate words of len(origin)
    indexes,      \* find_word_path: dict word -> vertex
    lst,          \* find_word_path: list vertex -> word
    i,            \* find_word_path: counter of the graph-building loop
    V,            \* Graph.__V
    Adj,          \* Graph.__Adj
    E,            \* Graph.__E
    Marked,       \* BreadthFirstPaths.__Marked
    EdgeTo,       \* BreadthFirstPaths.__EdgeTo
    S,            \* BreadthFirstPaths.__S
    queue,        \* __bfs: the deque
    v,            \* __bfs: the vertex taken from the queue
    pending,      \* __bfs: members of g.adj(v) the for loop has yet to yield
    x,            \* path_to: cursor
    result,       \* path_to: result
    path,         \* value returned by path_to
    ret,          \* value returned by find_word_path
    exc,          \* type of the exception raised, "" when none
    tad,          \* arguments of a call of _those_at_distance
    tadOut,       \* outcome of that call
    pc            \* position of the running call

vars == <<Words, origin, destination, subset, indexes, lst, i, V, Adj, E,
          Marked, EdgeTo, S, queue, v, pending, x, result, path, ret, exc,
          tad, tadOut, pc>>

wordVars  == <<Words, origin, destination, subset, indexes, lst, i, ret>>
graphVars == <<V, Adj, E>>
bfsVars   == <<Marked, EdgeTo, S, queue, v, pending>>
pathVars  == <<x, result, path>>
tadVars   == <<tad, tadOut>>

(***************************************************************************)
(* Bounds of the model and the input sets drawn from.                      *)
(***************************************************************************)
MaxWords   == 4   \* length of the dictionary
MaxV       == 4   \* vertices of a Graph built directly
MaxAddEdge == 3   \* add_edge calls on a Graph built directly
MaxWordLen == 2   \* length of the words given to _those_at_distance
MaxList    == 2   \* length of the word list given to _those_at_distance

Alphabet == {"a", "b"}

WordsOfLen(n) == [1..n -> Alphabet]

\* the words a dictionary is made of: the words of length 2 and a shorter one
Vocabulary == WordsOfLen(2) \cup {<<"a">>}

ListsOver(A, n) == UNION {[1..k -> A] : k \in 0..n}

Dictionaries == ListsOver(Vocabulary, MaxWords)

FilterWords == UNION {WordsOfLen(k) : k \in 0..MaxWordLen}

(***************************************************************************)
(* Values.                                                                 *)
(***************************************************************************)
NoneVal == [tag |-> "None"]
List(l) == [tag |-> "list", items |-> l]
Returned(n) == [raised |-> FALSE, value |-> n]
Raised(e) == [raised |-> TRUE, value |-> e]

Range(s) == {s[k] : k \in DOMAIN s}

RECURSIVE Reverse(_)
Reverse(s) == IF s = <<>> THEN <<>> ELSE Append(Reverse(Tail(s)), Head(s))

\* list[k] of Python for a list held as a function on 0..n-1: a negative
\* index counts from the end
PyIndex(list, n, k) == IF k < 0 THEN list[n + k] ELSE list[k]

(***************************************************************************)
(* Wordpath._hamming_distance, Wordpath._those_at_distance                 *)
(***************************************************************************)
_hamming_distance(first, second) ==
    IF Len(first) # Len(second)
    THEN Raised("ValueError")
    ELSE Returned(Cardinality({k \in 1..Len(first) : first[k] # second[k]}))

\* variant: the comprehension without its len(word) == len(w) condition
ReachesDistance_NoLengthCheck(word, w) == word # w

\* the conditions of the comprehension that are evaluated before the call
\* of _hamming_distance (and short-circuit it)
ReachesDistance(word, w) == word # w /\ Len(word) = Len(w)

_those_at_distance(word, wordlist, distance) ==
    IF \E k \in 1..Len(wordlist) :
          /\ ReachesDistance(word, wordlist[k])
          /\ _hamming_distance(word, wordlist[k]).raised
    THEN Raised("ValueError")
    ELSE Returned(SelectSeq(wordlist,
             LAMBDA w : /\ ReachesDistance(word, w)
                        /\ _hamming_distance(word, w).value = distance))

(***************************************************************************)
(* Graph                                                                   *)
(***************************************************************************)
NewAdj(n) == [k \in 0..(n - 1) |-> {}]

add_edge(g, a, b) ==
    LET Adj1 == [g.Adj EXCEPT ![a] = @ \cup {b}]
        Adj2 == [Adj1 EXCEPT ![b] = @ \cup {a}]
    IN  [Adj |-> Adj2, E |-> g.E + 1]

(***************************************************************************)
(* Wordpath.find_word_path: lines 297-306                                  *)
(***************************************************************************)
DictSet(d, key, val) ==
    [k \in DOMAIN d \cup {key} |-> IF k = key THEN val ELSE d[k]]

RECURSIVE IndexLoop(_, _, _)
IndexLoop(words, n, d) ==
    IF n > Len(words) THEN d
    ELSE IndexLoop(words, n + 1, DictSet(d, words[n], n - 1))

\* variant: a word already in the dict keeps its first index
RECURSIVE IndexLoop_FirstWins(_, _, _)
IndexLoop_FirstWins(words, n, d) ==
    IF n > Len(words) THEN d
    ELSE IndexLoop_FirstWins(words, n + 1,
             IF words[n] \in DOMAIN d THEN d ELSE DictSet(d, words[n], n - 1))

IndexesOf_FirstWins(words) == IndexLoop_FirstWins(words, 1, <<>>)

IndexesOf(words) == IndexLoop(words, 1, <<>>)

FindWordPath(o, d) ==
    /\ pc = "idle"
    /\ origin' = o
    /\ destination' = d
    /\ LET sub == SelectSeq(Words, LAMBDA word : Len(word) = Len(o))
       IN  /\ subset' = sub
           /\ V' = Len(sub)
           /\ Adj' = NewAdj(Len(sub))
           /\ E' = 0
           /\ indexes' = IndexesOf(sub)
           /\ lst' = sub
    /\ i' = 0
    /\ pc' = "build"
    /\ UNCHANGED <<Words, ret, exc>>
    /\ UNCHANGED <<bfsVars, pathVars, tadVars>>

(***************************************************************************)
(* find_word_path: one pass of the graph-building loop, lines 310-313      *)
(***************************************************************************)
RECURSIVE AddEdges(_, _, _, _)
AddEdges(g, d, w, matches) ==
    IF matches = <<>> THEN g
    ELSE AddEdges(add_edge(g, d[w], d[Head(matches)]), d, w, Tail(matches))

BuildGraph ==
    /\ pc = "build"
    /\ i < Len(subset)
    /\ i' = i + 1
    /\ LET w == subset[i + 1]
           close == _those_at_distance(w, subset, 1)
       IN  IF close.raised
           THEN /\ exc' = close.value
                /\ pc' = "raised"
                /\ UNCHANGED graphVars
           ELSE LET g == AddEdges([Adj |-> Adj, E |-> E], indexes, w, close.value)
                IN  /\ Adj' = g.Adj
                    /\ E' = g.E
                    /\ V' = V
                    /\ UNCHANGED <<exc, pc>>
    /\ UNCHANGED <<Words, origin, destination, subset, indexes, lst, ret>>
    /\ UNCHANGED <<bfsVars, pathVars, tadVars>>

(***************************************************************************)
(* BreadthFirstPaths.__init__ and the entry of __bfs, lines 122-137        *)
(***************************************************************************)
\* variant: __EdgeTo filled with 0 instead of -1
NewSearch_EdgeToZero(s) ==
    /\ Marked' = [[k \in 0..(V - 1) |-> FALSE] EXCEPT ![s] = TRUE]
    /\ EdgeTo' = [k \in 0..(V - 1) |-> 0]
    /\ S' = s
    /\ queue' = <<s>>
    /\ pending' = {}
    /\ v' = v
    /\ pc' = "bfs"

NewSearch(s) ==
    /\ Marked' = [[k \in 0..(V - 1) |-> FALSE] EXCEPT ![s] = TRUE]
    /\ EdgeTo' = [k \in 0..(V - 1) |-> -1]
    /\ S' = s
    /\ queue' = <<s>>
    /\ pending' = {}
    /\ v' = v
    /\ pc' = "bfs"

\* find_word_path line 317: indexes[origin] raises KeyError for a missing key
Search ==
    /\ pc = "build"
    /\ i = Len(subset)
    /\ IF origin \in DOMAIN indexes
       THEN /\ NewSearch(indexes[origin])
            /\ exc' = exc
       ELSE /\ exc' = "KeyError"
            /\ pc' = "raised"
            /\ UNCHANGED bfsVars
    /\ UNCHANGED <<wordVars, graphVars, pathVars, tadVars>>

(***************************************************************************)
(* BreadthFirstPaths.__bfs, lines 138-144                                  *)
(***************************************************************************)
\* while not len(queue) == 0: v = queue.popleft(); for w in g.adj(v)
BfsPop ==
    /\ pc = "bfs"
    /\ pending = {}
    /\ queue # <<>>
    /\ v' = Head(queue)
    /\ queue' = Tail(queue)
    /\ pending' = Adj[Head(queue)]
    /\ UNCHANGED <<Marked, EdgeTo, S, exc, pc>>
    /\ UNCHANGED <<wordVars, graphVars, pathVars, tadVars>>

\* variant: the for loop without queue.append(w)
BfsVisit_NoAppend ==
    /\ pc = "bfs"
    /\ \E w \in pending :
          /\ pending' = pending \ {w}
          /\ IF ~Marked[w]
             THEN /\ EdgeTo' = [EdgeTo EXCEPT ![w] = v]
                  /\ Marked' = [Marked EXCEPT ![w] = TRUE]
                  /\ queue' = queue
             ELSE UNCHANGED <<EdgeTo, Marked, queue>>
    /\ UNCHANGED <<S, v, exc, pc>>
    /\ UNCHANGED <<wordVars, graphVars, pathVars, tadVars>>

\* variant: the for loop without its test of __Marked[w]
BfsVisit_NoMarkedCheck ==
    /\ pc = "bfs"
    /\ \E w \in pending :
          /\ pending' = pending \ {w}
          /\ EdgeTo' = [EdgeTo EXCEPT ![w] = v]
          /\ Marked' = [Marked EXCEPT ![w] = TRUE]
          /\ queue' = Append(queue, w)
    /\ UNCHANGED <<S, v, exc, pc>>
    /\ UNCHANGED <<wordVars, graphVars, pathVars, tadVars>>

\* one pass of the for loop; a set yields its members in no defined order
BfsVisit ==
    /\ pc = "bfs"
    /\ \E w \in pending :
          /\ pending' = pending \ {w}
          /\ IF ~Marked[w]
             THEN /\ EdgeTo' = [EdgeTo EXCEPT ![w] = v]
                  /\ Marked' = [Marked EXCEPT ![w] = TRUE]
                  /\ queue' = Append(queue, w)
             ELSE UNCHANGED <<EdgeTo, Marked, queue>>
    /\ UNCHANGED <<S, v, exc, pc>>
    /\ UNCHANGED <<wordVars, graphVars, pathVars, tadVars>>

\* the while condition fails: __bfs and the constructor return
BfsExit ==
    /\ pc = "bfs"
    /\ pending = {}
    /\ queue = <<>>
    /\ pc' = "searched"
    /\ UNCHANGED <<exc>>
    /\ UNCHANGED <<wordVars, graphVars, bfsVars, pathVars, tadVars>>

(***************************************************************************)
(* BreadthFirstPaths.path_to, lines 164-172                                *)
(***************************************************************************)
\* lines 164-167
EnterPathTo(n) ==
    IF Marked[n]
    THEN /\ result' = List(<<>>)
         /\ x' = n
         /\ pc' = "path_loop"
    ELSE /\ result' = NoneVal
         /\ x' = x
         /\ pc' = "path_return"

\* find_word_path line 320: indexes[destination] raises KeyError
PathTo ==
    /\ pc = "searched"
    /\ IF destination \in DOMAIN indexes
       THEN /\ EnterPathTo(indexes[destination])
            /\ exc' = exc
       ELSE /\ exc' = "KeyError"
            /\ pc' = "raised"
            /\ UNCHANGED <<x, result>>
    /\ path' = path
    /\ UNCHANGED <<wordVars, graphVars, bfsVars, tadVars>>

\* lines 168-171
PathToLoop ==
    /\ pc = "path_loop"
    /\ IF x # S
       THEN /\ result' = List(Append(result.items, x))
            /\ x' = PyIndex(EdgeTo, V, x)
            /\ pc' = pc
       ELSE /\ result' = List(Append(result.items, S))
            /\ x' = x
            /\ pc' = "path_return"
    /\ UNCHANGED <<path, exc>>
    /\ UNCHANGED <<wordVars, graphVars, bfsVars, tadVars>>

\* variant: path_to returns result without reversing it
PathToReturn_NoReverse ==
    /\ pc = "path_return"
    /\ IF result = NoneVal
       THEN /\ exc' = "TypeError"
            /\ pc' = "raised"
            /\ path' = path
       ELSE /\ path' = List(result.items)
            /\ pc' = "path_done"
            /\ exc' = exc
    /\ UNCHANGED <<x, result>>
    /\ UNCHANGED <<wordVars, graphVars, bfsVars, tadVars>>

\* line 172: result[::-1]; None is not subscriptable
PathToReturn ==
    /\ pc = "path_return"
    /\ IF result = NoneVal
       THEN /\ exc' = "TypeError"
            /\ pc' = "raised"
            /\ path' = path
       ELSE /\ path' = List(Reverse(result.items))
            /\ pc' = "path_done"
            /\ exc' = exc
    /\ UNCHANGED <<x, result>>
    /\ UNCHANGED <<wordVars, graphVars, bfsVars, tadVars>>

(***************************************************************************)
(* find_word_path, lines 321-327                                           *)
(***************************************************************************)
Return ==
    /\ pc = "path_done"
    /\ ret' = IF path = NoneVal
              THEN NoneVal
              ELSE List([k \in 1..Len(path.items) |-> lst[path.items[k] + 1]])
    /\ pc' = "done"
    /\ UNCHANGED <<Words, origin, destination, subset, indexes, lst, i, exc>>
    /\ UNCHANGED <<graphVars, bfsVars, pathVars, tadVars>>

(***************************************************************************)
(* A Wordpath holding a dictionary, on which find_word_path is called.     *)
(***************************************************************************)
Idle ==
    /\ origin = <<>> /\ destination = <<>> /\ subset = <<>>
    /\ indexes = <<>> /\ lst = <<>> /\ i = 0 /\ ret = NoneVal
    /\ V = 0 /\ Adj = <<>> /\ E = 0
    /\ Marked = <<>> /\ EdgeTo = <<>> /\ S = -1
    /\ queue = <<>> /\ v = -1 /\ pending = {}
    /\ x = -1 /\ result = NoneVal /\ path = NoneVal
    /\ exc = ""

Init ==
    /\ Words \in Dictionaries
    /\ Idle
    /\ tad = <<>> /\ tadOut = NoneVal
    /\ pc = "idle"

Next ==
    \/ \E o \in Vocabulary, d \in Vocabulary : FindWordPath(o, d)
    \/ BuildGraph
    \/ Search
    \/ BfsPop
    \/ BfsVisit
    \/ BfsExit
    \/ PathTo
    \/ PathToLoop
    \/ PathToReturn
    \/ Return

Spec == Init /\ [][Next]_vars

(***************************************************************************)
(* A Graph built directly by add_edge calls, searched from any source, and *)
(* asked for the path to any vertex.                                       *)
(***************************************************************************)
GraphAddEdge(a, b) ==
    /\ pc = "graph"
    /\ E < MaxAddEdge
    /\ LET g == add_edge([Adj |-> Adj, E |-> E], a, b)
       IN  /\ Adj' = g.Adj
           /\ E' = g.E
    /\ UNCHANGED <<V, exc, pc>>
    /\ UNCHANGED <<wordVars, bfsVars, pathVars, tadVars>>

GraphSearch(s) ==
    /\ pc = "graph"
    /\ NewSearch(s)
    /\ UNCHANGED <<exc>>
    /\ UNCHANGED <<wordVars, graphVars, pathVars, tadVars>>

GraphPathTo(n) ==
    /\ pc = "searched"
    /\ EnterPathTo(n)
    /\ UNCHANGED <<path, exc>>
    /\ UNCHANGED <<wordVars, graphVars, bfsVars, tadVars>>

InitG ==
    /\ Words = <<>>
    /\ origin = <<>> /\ destination = <<>> /\ subset = <<>>
    /\ indexes = <<>> /\ lst = <<>> /\ i = 0 /\ ret = NoneVal
    /\ V \in 0..MaxV
    /\ Adj = NewAdj(V)
    /\ E = 0
    /\ Marked = <<>> /\ EdgeTo = <<>> /\ S = -1
    /\ queue = <<>> /\ v = -1 /\ pending = {}
    /\ x = -1 /\ result = NoneVal /\ path = NoneVal
    /\ exc = ""
    /\ tad = <<>> /\ tadOut = NoneVal
    /\ pc = "graph"

NextG ==
    \/ \E a \in 0..(V - 1), b \in 0..(V - 1) : GraphAddEdge(a, b)
    \/ \E s \in 0..(V - 1) : GraphSearch(s)
    \/ BfsPop
    \/ BfsVisit
    \/ BfsExit
    \/ \E n \in 0..(V - 1) : GraphPathTo(n)
    \/ PathToLoop
    \/ PathToReturn

SpecG == InitG /\ [][NextG]_vars

\* the program is sequential and runs every call to its end: each step of
\* a running search or path reconstruction is eventually taken
FairSpecG ==
    /\ SpecG
    /\ WF_vars(BfsPop) /\ WF_vars(BfsVisit) /\ WF_vars(BfsExit)
    /\ WF_vars(PathToLoop) /\ WF_vars(PathToReturn)

(***************************************************************************)
(* A call of _those_at_distance on any word, word list and distance.       *)
(***************************************************************************)
ThoseAtDistance ==
    /\ pc = "filter"
    /\ tadOut' = _those_at_distance(tad.word, tad.wordlist, tad.distance)
    /\ pc' = "filtered"
    /\ UNCHANGED <<tad, exc>>
    /\ UNCHANGED <<wordVars, graphVars, bfsVars, pathVars>>

InitF ==
    /\ Words = <<>>
    /\ Idle
    /\ tad \in [word : FilterWords,
                wordlist : ListsOver(FilterWords, MaxList),
                distance : 0..MaxWordLen]
    /\ tadOut = NoneVal
    /\ pc = "filter"

NextF == ThoseAtDistance

SpecF == InitF /\ [][NextF]_vars

(***************************************************************************)
(* Notions the properties are stated with, defined without the code's      *)
(* operators.                                                              *)
(***************************************************************************)
RECURSIVE Diff(_, _)
Diff(a, b) ==
    IF a = <<>> \/ b = <<>> THEN 0
    ELSE (IF Head(a) # Head(b) THEN 1 ELSE 0) + Diff(Tail(a), Tail(b))

OneApart(a, b) == Len(a) = Len(b) /\ Diff(a, b) = 1

\* p is a word ladder from o to d made of words of dict
IsLadder(p, o, d, dict) ==
    /\ Len(p) >= 1
    /\ p[1] = o
    /\ p[Len(p)] = d
    /\ \A k \in 1..(Len(p) - 1) : OneApart(p[k], p[k + 1])
    /\ \A k \in 1..Len(p) : p[k] \in Range(dict)

NoShorterLadder(n, o, d, dict) ==
    \A m \in 1..(n - 1) : \A p \in [1..m -> Range(dict)] : ~IsLadder(p, o, d, dict)

Vertices == 0..(V - 1)

RECURSIVE Grow(_)
Grow(R) ==
    LET R2 == R \cup UNION {Adj[n] : n \in R}
    IN  IF R2 = R THEN R ELSE Grow(R2)

\* the vertices joined to the source by a chain of edges
Reachable == Grow({S})

\* following the predecessor links from n reaches the source without
\* meeting a vertex of seen or any vertex twice
RECURSIVE ChainToSource(_, _)
ChainToSource(n, seen) ==
    \/ n = S
    \/ /\ n \in Vertices
       /\ n \notin seen
       /\ ChainToSource(EdgeTo[n], seen \cup {n})

NoDuplicates(q) == \A a \in 1..Len(q), b \in 1..Len(q) : q[a] = q[b] => a = b

\* a BreadthFirstPaths object exists
SearchStarted == S >= 0

\* the graph-building loop of find_word_path has finished
BuildFinished == pc \notin {"idle", "graph", "filter", "filtered"} /\ i = Len(subset)

\* position a of subset (counted from 0) holds the last copy of its word
LastCopy(a) == \A k \in (a + 2)..Len(subset) : subset[k] # subset[a + 1]

(***************************************************************************)
(* C1: whenever find_word_path returns a word sequence it is a shortest    *)
(* word ladder: it starts with origin, ends with destination, consecutive  *)
(* words are at Hamming distance 1, every word is in the dictionary, no    *)
(* such sequence of dictionary words has fewer elements, and for           *)
(* origin = destination it is [origin].                                    *)
(***************************************************************************)
C1_ShortestLadder ==
    (pc = "done" /\ ret # NoneVal) =>
        /\ IsLadder(ret.items, origin, destination, Words)
        /\ NoShorterLadder(Len(ret.items), origin, destination, Words)
        /\ (origin = destination => ret.items = <<origin>>)

C1_Witness ==
    /\ pc = "done"
    /\ ret # NoneVal
    /\ Len(ret.items) = 3
    /\ \E k \in 1..Len(Words) : Len(Words[k]) # Len(origin)

(***************************************************************************)
(* C2: when origin and destination are both in the candidate subset and    *)
(* the search never marks the destination's vertex, path_to and            *)
(* find_word_path complete normally and yield None; nothing is raised.     *)
(***************************************************************************)
C2_NoPathYieldsNone ==
    ( /\ pc \in {"done", "raised"}
      /\ origin \in DOMAIN indexes
      /\ destination \in DOMAIN indexes
      /\ SearchStarted
      /\ ~Marked[indexes[destination]] )
    => (pc = "done" /\ exc = "" /\ ret = NoneVal)

(***************************************************************************)
(* C3, as stated: after the graph-building loop, for every candidate       *)
(* subset and all vertices a, b: b is in adj(a) iff the words at positions *)
(* a and b of the subset are at Hamming distance exactly 1.                *)
(***************************************************************************)
C3_AdjacentIffOneApart ==
    BuildFinished =>
        \A a \in Vertices, b \in Vertices :
            (b \in Adj[a]) <=> OneApart(subset[a + 1], subset[b + 1])

(***************************************************************************)
(* C3, amended: after the graph-building loop, b is in adj(a) iff the      *)
(* words at positions a and b are at Hamming distance exactly 1 and each   *)
(* of the two positions holds the last copy of its word in the subset.     *)
(***************************************************************************)
C3_AdjacentIffOneApartLastCopies ==
    BuildFinished =>
        \A a \in Vertices, b \in Vertices :
            (b \in Adj[a]) <=>
                /\ OneApart(subset[a + 1], subset[b + 1])
                /\ LastCopy(a)
                /\ LastCopy(b)

C3_Witness ==
    /\ BuildFinished
    /\ \E a \in Vertices : ~LastCopy(a)
    /\ \E a \in Vertices : Adj[a] # {}

(***************************************************************************)
(* C4: when len(origin) != len(destination), find_word_path decides the    *)
(* query is invalid before graph construction: no Graph is created, no     *)
(* add_edge call happens and no breadth-first search is run.               *)
(***************************************************************************)
C4_RejectedBeforeGraph ==
    (pc # "idle" /\ Len(origin) # Len(destination)) =>
        /\ pc \in {"done", "raised"}
        /\ Adj = <<>>
        /\ E = 0
        /\ ~SearchStarted

(***************************************************************************)
(* C5: when the dictionary has no word of len(origin), find_word_path      *)
(* yields None and raises nothing.                                         *)
(***************************************************************************)
C5_EmptySubsetYieldsNone ==
    (pc \in {"done", "raised"} /\ subset = <<>>) =>
        (pc = "done" /\ exc = "" /\ ret = NoneVal)

(***************************************************************************)
(* C6: _those_at_distance(word, wordlist, d) returns exactly the elements  *)
(* of wordlist, in their relative order, that differ from word, have its   *)
(* length and are at Hamming distance d from it; it never contains word    *)
(* and never raises the unequal-length error.                              *)
(***************************************************************************)
C6_Kept ==
    {k \in 1..Len(tad.wordlist) :
        /\ tad.wordlist[k] # tad.word
        /\ Len(tad.wordlist[k]) = Len(tad.word)
        /\ Diff(tad.wordlist[k], tad.word) = tad.distance}

C6_FilterExact ==
    pc = "filtered" =>
        /\ ~tadOut.raised
        /\ Len(tadOut.value) = Cardinality(C6_Kept)
        /\ \E f \in [1..Len(tadOut.value) -> C6_Kept] :
              /\ \A a \in DOMAIN f, b \in DOMAIN f : a < b => f[a] < f[b]
              /\ \A a \in DOMAIN f : tadOut.value[a] = tad.wordlist[f[a]]
        /\ tad.word \notin Range(tadOut.value)

C6_Witness ==
    /\ pc = "filtered"
    /\ Len(tad.wordlist) = 2
    /\ Len(tadOut.value) = 1
    /\ tadOut.value[1] = tad.wordlist[2]
    /\ Len(tad.wordlist[1]) # Len(tad.word)

(***************************************************************************)
(* C7: e() equals the number of edges of the graph, the number of distinct *)
(* unordered vertex pairs {a, b} with b in adj(a); adding an edge that is  *)
(* already present does not change it.                                     *)
(***************************************************************************)
C7_Edges ==
    {e \in {{a, b} : a \in Vertices, b \in Vertices} :
        \E a \in e, b \in e : e = {a, b} /\ b \in Adj[a]}

C7_ECountsEdges == E = Cardinality(C7_Edges)

(***************************************************************************)
(* C8: the breadth-first loop terminates, and from then on a vertex is     *)
(* marked iff it is reachable from the source, and the predecessor links   *)
(* of every marked vertex other than the source lead back to the source.   *)
(***************************************************************************)
C8_MarkedIffReachable ==
    \A n \in Vertices :
        /\ Marked[n] <=> n \in Reachable
        /\ (Marked[n] /\ n # S) => (EdgeTo[n] # -1 /\ ChainToSource(n, {}))

C8_SearchTerminates ==
    /\ (pc = "bfs") ~> (pc = "searched")
    /\ [](pc \in {"searched", "path_loop", "path_return", "path_done", "raised"}
            => C8_MarkedIffReachable)

C8_Witness ==
    /\ pc = "searched"
    /\ \E n \in Vertices : ~Marked[n]
    /\ \E n \in Vertices : Marked[n] /\ n # S /\ EdgeTo[n] # S

(***************************************************************************)
(* C9: during a search a vertex, once marked, stays marked; a vertex is    *)
(* appended to the queue only in the step that marks it, the queue never   *)
(* holds a vertex twice, a vertex that has left the queue never returns,   *)
(* a predecessor entry is written only in the step that marks its vertex   *)
(* and never changes afterwards, and the source never gets a predecessor.  *)
(***************************************************************************)
C9_Step ==
    /\ \A n \in Vertices :
          /\ Marked[n] => Marked'[n]
          /\ EdgeTo'[n] # EdgeTo[n] => (~Marked[n] /\ Marked'[n] /\ EdgeTo[n] = -1)
          /\ (Marked[n] /\ n \notin Range(queue)) => n \notin Range(queue')
          /\ (n \in Range(queue') /\ n \notin Range(queue)) => (~Marked[n] /\ Marked'[n])
          /\ (~Marked[n] /\ Marked'[n]) => n \in Range(queue')
    /\ NoDuplicates(queue')
    /\ EdgeTo'[S] = -1
    /\ S' = S

C9_VisitedOnce == [][SearchStarted => C9_Step]_vars

C9_Witness ==
    /\ pc = "bfs"
    /\ \E w \in pending : Marked[w] /\ w # v /\ w # S /\ w \notin Range(queue)

(***************************************************************************)
(* C10: in every state during and after the search the predecessor links   *)
(* form a tree rooted at the source: the source and every unmarked vertex  *)
(* have predecessor -1, every other marked vertex has a marked, adjacent   *)
(* predecessor, following the links from a marked vertex reaches the       *)
(* source without repeating a vertex, and the reconstruction loop of       *)
(* path_to terminates.                                                     *)
(***************************************************************************)
C10_Tree ==
    /\ Marked[S]
    /\ EdgeTo[S] = -1
    /\ \A n \in Vertices :
          /\ ~Marked[n] => EdgeTo[n] = -1
          /\ (Marked[n] /\ n # S) =>
                /\ EdgeTo[n] \in Vertices
                /\ Marked[EdgeTo[n]]
                /\ EdgeTo[n] \in Adj[n]
          /\ Marked[n] => ChainToSource(n, {})

C10_PredecessorTree ==
    /\ [](SearchStarted => C10_Tree)
    /\ (pc = "path_loop") ~> (pc = "path_return")

C10_Witness ==
    /\ pc = "path_return"
    /\ result # NoneVal
    /\ Len(result.items) = 3

====
